---- MODULE Spec2Model ----
(***************************************************************************)
(* Model of the transcription pipeline of Scribe_Flow:                     *)
(*   backend/asr.py    ASRProcessor.transcribe and its helpers             *)
(*   backend/utils.py  slice_audio, extract_audio, get_audio_duration      *)
(*   backend/diarization.py (through the names asr.py binds at import)     *)
(*                                                                         *)
(* Representation of values                                                *)
(*   text    a sequence of one-character strings ("a", ".", " ")           *)
(*   time    Python floats holding seconds are kept exactly, as an integer *)
(*           number of ticks, TicksPerMs ticks to the millisecond, so that *)
(*           ms / 1000.0 and duration / n are exact (real arithmetic, no   *)
(*           floating-point rounding)                                      *)
(*   None    the empty sequence <<>>; a present value x is <<x>>           *)
(***************************************************************************)
EXTENDS Integers, Sequences, FiniteSets, TLC

\* ---------------------------------------------------------------- bounds
\* slice_audio on its own: track lengths 0..MaxTotalMs milliseconds
MaxTotalMs == 6
\* slice_audio on its own: window_s and overlap_s range over
\* 0..MaxParamMs milliseconds, in steps of 1/SubMs millisecond
MaxParamMs == 4
SubMs == 2
\* pipeline: the track is 0..MaxTrackSteps half windows long
MaxTrackSteps == 4
\* pipeline: ASR_CONCURRENCY ranges over 0..MaxWorkers
MaxWorkers == 3
\* fallback text: up to MaxSentences sentences
MaxSentences == 3
\* speaker turns drawn for _assign_speaker / merge_short_adjacent: up to
\* MaxTurns turns on the grid 0..MaxTime
MaxTurns == 2
MaxTime == 3
\* speaker turns diarize returns in a run of transcribe: up to MaxDiarTurns
\* turns with their ends on window-length steps within the longest track
MaxDiarTurns == 2

\* ------------------------------------------------------ program constants
\* asr.py:57  slice_audio(audio_path, window_s=30.0, overlap_s=0.3), in ms
WINDOW_MS == 30000
OVERLAP_MS == 300
\* utils.py:40,48  fallback duration 60.0 s, in ms
FALLBACK_DURATION_MS == 60000

VARIABLES
    \* ---- one run of ASRProcessor.transcribe
    pc,               \* position of the run
    is_wav,           \* file_path.lower().endswith(".wav")
    enable_diarization,
    track_ms,         \* len(audio) of the decoded track, in ms
    disk,             \* paths that exist on disk
    decode_tried,     \* the decode steps extract_audio has run so far
    temp_files,       \* asr.py:33
    audio_path,       \* asr.py:36
    duration,         \* asr.py:37, ticks
    speaker_turns,    \* asr.py:41
    diar_meta,        \* asr.py:42
    slices,           \* asr.py:57
    max_workers,      \* asr.py:58
    futs,             \* asr.py:63-65, one future per submitted window,
                      \* with the number of remote calls made for it
    done_order,       \* indices in the order as_completed yields them
    ordered_results,  \* asr.py:61
    merged_segments,  \* asr.py:76
    full_text,        \* asr.py:77
    fallback_calls,   \* number of whole-file calls made (asr.py:90)
    fallback_out,     \* what the whole-file call returned
    result,           \* the returned dict, or None
    error,            \* the exception leaving transcribe, "" when none
    \* ---- one activation of the generator slice_audio
    s_pc, s_window_s, s_overlap_s,
    total_ms, window_ms, overlap_ms, start_ms, s_out,
    \* ---- direct calls of _assign_speaker / merge_short_adjacent
    u_pc, u_seg, u_turns, u_out

pipeVars == <<pc, is_wav, enable_diarization, track_ms, disk, decode_tried,
              temp_files,
              audio_path, duration, speaker_turns, diar_meta, slices,
              max_workers, futs, done_order, ordered_results,
              merged_segments, full_text, fallback_calls, fallback_out,
              result, error>>
sliceVars == <<s_pc, s_window_s, s_overlap_s, total_ms, window_ms,
               overlap_ms, start_ms, s_out>>
unitVars == <<u_pc, u_seg, u_turns, u_out>>
vars == <<pipeVars, sliceVars, unitVars>>

\* ------------------------------------------------------------- helpers
None == <<>>
Some(x) == <<x>>

Min(a, b) == IF a <= b THEN a ELSE b
Max(a, b) == IF a >= b THEN a ELSE b

RECURSIVE Gcd(_, _)
Gcd(a, b) == IF b = 0 THEN a ELSE Gcd(b, a % b)
RECURSIVE LcmUpTo(_)
LcmUpTo(n) == IF n <= 1 THEN 1
              ELSE LET l == LcmUpTo(n - 1) IN (l * n) \div Gcd(l, n)

\* ticks per millisecond: every duration / n with n <= MaxSentences is exact
TicksPerMs == LcmUpTo(MaxSentences)
\* ms / 1000.0 (utils.py:179): the float of a whole number of milliseconds
SecondsOfMs(ms) == ms * TicksPerMs

\* int(x): truncation toward zero of a value given in 1/SubMs ms
IntTrunc(x) == IF x >= 0 THEN x \div SubMs ELSE -((-x) \div SubMs)

Whitespace == {" "}
Terminal == {"."}

RECURSIVE LStrip(_)
LStrip(s) == IF s # <<>> /\ Head(s) \in Whitespace THEN LStrip(Tail(s)) ELSE s
RECURSIVE RStrip(_)
RStrip(s) == IF s # <<>> /\ s[Len(s)] \in Whitespace
             THEN RStrip(SubSeq(s, 1, Len(s) - 1)) ELSE s
\* str.strip()
Strip(s) == RStrip(LStrip(s))

\* " ".join(ts)
RECURSIVE Join(_)
Join(ts) == IF ts = <<>> THEN <<>>
            ELSE IF Len(ts) = 1 THEN ts[1]
            ELSE ts[1] \o <<" ">> \o Join(Tail(ts))

\* sentence count many copies of "a." separated by one space
RECURSIVE SentenceText(_)
SentenceText(k) == IF k = 0 THEN <<>>
                   ELSE IF k = 1 THEN <<"a", ".">>
                   ELSE <<"a", ".", " ">> \o SentenceText(k - 1)

\* what one remote call on a window can return (response_format="text")
WindowOutputs == {<<>>, <<"a">>, <<"a", " ">>}
\* what the whole-file remote call can return
FallbackOutputs == {SentenceText(k) : k \in 0..MaxSentences}
                   \cup {<<" ">>, <<"a">>, <<" ", "a", ".", " ">>}

\* the track lengths of the pipeline runs: whole numbers of half windows
TrackLengths == {k * (WINDOW_MS \div 2) : k \in 0..MaxTrackSteps}

\* the path extract_audio writes (utils.py:60-61)
TmpWav == "audio_input.wav"
InputPath == "input"

\* ------------------------------------------------ utils.py: slice_audio
\* the generator cannot yield more often than this for overlap < window
MaxYield == Max(MaxTotalMs, (MaxTrackSteps * (WINDOW_MS \div 2)) \div (WINDOW_MS - OVERLAP_MS)) + 1

\* utils.py:165-169, the generator's first activation up to the loop
SliceEnter ==
    /\ s_pc = "call"
    /\ total_ms' = track_ms
    /\ start_ms' = 0
    /\ window_ms' = IntTrunc(s_window_s)
    /\ overlap_ms' = IntTrunc(s_overlap_s)
    /\ s_out' = <<>>
    /\ s_pc' = "loop"
    /\ UNCHANGED <<s_window_s, s_overlap_s, pipeVars, unitVars>>

\* utils.py:172
EndMs(start, window, total) == Min(start + window, total)

\* NextStart with the overlap added instead of subtracted
NextStartGap(end, overlap) == end + overlap

\* utils.py:182
NextStart(end, overlap) == end - overlap

\* utils.py:171-182, one iteration of the loop: the window is yielded, then
\* the loop breaks or the cursor moves (the payload bytes are left out)
SliceYield ==
    /\ s_pc = "loop"
    /\ start_ms < total_ms
    /\ Len(s_out) < MaxYield
    /\ LET end_ms == EndMs(start_ms, window_ms, total_ms) IN
        /\ s_out' = Append(s_out, [start |-> SecondsOfMs(start_ms),
                                   end |-> SecondsOfMs(end_ms)])
        /\ IF end_ms = total_ms
           THEN s_pc' = "done" /\ start_ms' = start_ms
           ELSE s_pc' = "loop" /\ start_ms' = NextStart(end_ms, overlap_ms)
    /\ UNCHANGED <<s_window_s, s_overlap_s, total_ms, window_ms, overlap_ms,
                   pipeVars, unitVars>>

\* utils.py:171, the loop condition is false
SliceExhaust ==
    /\ s_pc = "loop"
    /\ ~(start_ms < total_ms)
    /\ s_pc' = "done"
    /\ UNCHANGED <<s_window_s, s_overlap_s, total_ms, window_ms, overlap_ms,
                   start_ms, s_out, pipeVars, unitVars>>

SliceNext == SliceEnter \/ SliceYield \/ SliceExhaust

\* ------------------------------------- asr.py: names bound at import time
\* The names diarization.py defines at module level (diarization.py:17-94).
DiarizationExports == {"Pipeline", "_PIPELINE", "_get_token", "_get_pipeline",
                       "diarize", "is_available"}
\* asr.py:13-14: the import succeeds only if every imported name exists
ImportOk == {"diarize", "merge_short_adjacent", "is_available"} \subseteq DiarizationExports
\* asr.py:16 (the stub bound when the import raises); diarization.py:94-103
\* otherwise, where the outcome depends on the package and the token
diarization_available(env_ok) == IF ImportOk THEN env_ok ELSE FALSE
\* asr.py:17 (stub): no turns
diarize(path) == <<>>
\* asr.py:18 (stub): def merge_short_adjacent(t, *_, **__): return t
merge_short_adjacent(t, min_dur, max_gap) == t
\* asr.py:46, min_dur=0.6 and max_gap=0.4, in units of 0.2 s
MIN_DUR == 3
MAX_GAP == 2

\* ------------------------------------------------- asr.py: the helpers
\* asr.py:118
Overlap(seg, t) == Max(0, Min(seg.end, t.end) - Max(seg.start, t.start))

\* AssignLoop taking a turn whose overlap is not smaller than the best
RECURSIVE AssignLoopLast(_, _, _, _, _)
AssignLoopLast(seg, turns, i, best, best_overlap) ==
    IF i > Len(turns) THEN best
    ELSE IF Overlap(seg, turns[i]) >= best_overlap
         THEN AssignLoopLast(seg, turns, i + 1, Some(turns[i]), Overlap(seg, turns[i]))
         ELSE AssignLoopLast(seg, turns, i + 1, best, best_overlap)

\* asr.py:115-121, the loop over turns from index i on
RECURSIVE AssignLoop(_, _, _, _, _)
AssignLoop(seg, turns, i, best, best_overlap) ==
    IF i > Len(turns) THEN best
    ELSE IF Overlap(seg, turns[i]) > best_overlap
         THEN AssignLoop(seg, turns, i + 1, Some(turns[i]), Overlap(seg, turns[i]))
         ELSE AssignLoop(seg, turns, i + 1, best, best_overlap)

\* asr.py:114-122
_assign_speaker(seg, turns) ==
    LET best == AssignLoop(seg, turns, 1, None, 0)
    IN IF best # None THEN best[1].speaker ELSE "SPEAKER_00"

\* asr.py:156, re.split(r"(?<=[.!?])\s+", text): the parts of text from
\* index i on, cur being the part read so far
RECURSIVE SkipWhitespace(_, _)
SkipWhitespace(text, i) ==
    IF i <= Len(text) /\ text[i] \in Whitespace THEN SkipWhitespace(text, i + 1) ELSE i
RECURSIVE ReSplit(_, _, _)
ReSplit(text, i, cur) ==
    IF i > Len(text) THEN <<cur>>
    ELSE IF text[i] \in Whitespace /\ i > 1 /\ text[i - 1] \in Terminal
         THEN <<cur>> \o ReSplit(text, SkipWhitespace(text, i), <<>>)
         ELSE ReSplit(text, i + 1, Append(cur, text[i]))

\* asr.py:155-157
_split_sentences(text) ==
    SelectSeq(ReSplit(Strip(text), 1, <<>>), LAMBDA p : p # <<>>)

\* _create_sentence_segments counting the sentences from 1
CreateSentenceSegmentsShifted(text, dur) ==
    LET sentences == _split_sentences(text)
        n == Len(sentences)
        tps == dur \div Max(1, n)
    IN IF n = 0
       THEN <<[start |-> 0, end |-> dur, text |-> text]>>
       ELSE [i \in 1..n |->
               [start |-> i * tps,
                end |-> IF i = n THEN dur ELSE (i + 1) * tps,
                text |-> Strip(sentences[i])]]

\* _create_sentence_segments without the segment of the zero-sentence case
CreateSentenceSegmentsNoDefault(text, dur) ==
    LET sentences == _split_sentences(text)
        n == Len(sentences)
        tps == dur \div Max(1, n)
    IN [i \in 1..n |->
          [start |-> (i - 1) * tps,
           end |-> IF i = n THEN dur ELSE i * tps,
           text |-> Strip(sentences[i])]]

\* asr.py:142-153
_create_sentence_segments(text, dur) ==
    LET sentences == _split_sentences(text)
        n == Len(sentences)
        tps == dur \div Max(1, n)
    IN IF n = 0
       THEN <<[start |-> 0, end |-> dur, text |-> text]>>
       ELSE [i \in 1..n |->
               [start |-> (i - 1) * tps,
                end |-> IF i = n THEN dur ELSE i * tps,
                text |-> Strip(sentences[i])]]

\* asr.py:124-132, what _transcribe_bytes makes of the remote call's text
_transcribe_bytes(out) == Strip(out)

\* asr.py:76, [seg for seg in ordered_results if seg]
RECURSIVE Filled(_)
Filled(slots) ==
    IF slots = <<>> THEN <<>>
    ELSE (IF Head(slots) # None THEN Head(slots) ELSE <<>>) \o Filled(Tail(slots))

\* asr.py:77
FullText(segs) == Strip(Join([i \in 1..Len(segs) |-> segs[i].text]))

\* --------------------------------- asr.py: one run of transcribe
\* Raise with the exception swallowed
RaiseSwallowed(cause) == error' = "" /\ pc' = "finally"

\* raise: the exception leaves the try block, the finally clause runs next
Raise(cause) == error' = cause /\ pc' = "finally"

\* asr.py:36, _prepare_audio (asr.py:134-140) and extract_audio
\* (utils.py:50-83): ffmpeg is missing (utils.py:54-55), or its one run
\* fails (utils.py:71, 81-83), or leaves no output (utils.py:78-79), or
\* succeeds.  A failing ffmpeg run may leave its output file behind.
PrepareAudio ==
    /\ pc = "prepare"
    /\ IF is_wav
       THEN /\ audio_path' = InputPath
            /\ pc' = "duration"
            /\ UNCHANGED <<disk, decode_tried, temp_files, error>>
       ELSE \E outcome \in {"ok", "no_ffmpeg", "run_failed", "no_output"},
               left \in BOOLEAN :
            CASE outcome = "ok" ->
                   /\ ~left
                   /\ disk' = disk \cup {TmpWav}
                   /\ temp_files' = Append(temp_files, TmpWav)
                   /\ audio_path' = TmpWav
                   /\ decode_tried' = Append(decode_tried, "ffmpeg")
                   /\ pc' = "duration"
                   /\ UNCHANGED error
              [] outcome = "run_failed" ->
                   /\ disk' = IF left THEN disk \cup {TmpWav} ELSE disk
                   /\ decode_tried' = Append(decode_tried, "ffmpeg")
                   /\ Raise("decode")
                   /\ UNCHANGED <<temp_files, audio_path>>
              [] outcome = "no_output" ->
                   /\ ~left
                   /\ decode_tried' = Append(decode_tried, "ffmpeg")
                   /\ Raise("decode")
                   /\ UNCHANGED <<disk, temp_files, audio_path>>
              [] OTHER ->
                   /\ ~left
                   /\ Raise("decode")
                   /\ UNCHANGED <<disk, decode_tried, temp_files, audio_path>>
    /\ UNCHANGED <<is_wav, enable_diarization, track_ms, duration,
                   speaker_turns, diar_meta, slices, max_workers, futs,
                   done_order, ordered_results, merged_segments, full_text,
                   fallback_calls, fallback_out, result, sliceVars, unitVars>>

\* asr.py:37 and get_audio_duration (utils.py:34-48): the probed duration,
\* or the fallback constant when ffmpeg is missing or the probe raises
ProbeDuration ==
    /\ pc = "duration"
    /\ \E probe_ok \in BOOLEAN :
         duration' = IF probe_ok THEN SecondsOfMs(track_ms)
                     ELSE SecondsOfMs(FALLBACK_DURATION_MS)
    /\ pc' = "diarize"
    /\ UNCHANGED <<is_wav, enable_diarization, track_ms, disk, decode_tried,
                   temp_files,
                   audio_path, speaker_turns, diar_meta, slices, max_workers,
                   futs, done_order, ordered_results, merged_segments,
                   full_text, fallback_calls, fallback_out, result, error,
                   sliceVars, unitVars>>

\* asr.py:48, sorted({t["speaker"] for t in speaker_turns}), as a set
Speakers(turns) == {turns[i].speaker : i \in 1..Len(turns)}

\* InitialDiarMeta recording the request only when diarization can run
InitialDiarMetaIfAvailable(requested) ==
    [requested |-> requested /\ diarization_available(TRUE),
     turns |-> 0, speakers |-> {}]

\* asr.py:42
InitialDiarMeta(requested) ==
    [requested |-> requested, turns |-> 0, speakers |-> {}]

\* asr.py:41-54
Diarize ==
    /\ pc = "diarize"
    /\ \E env_ok \in BOOLEAN :
         IF enable_diarization /\ diarization_available(env_ok)
         THEN LET turns == merge_short_adjacent(diarize(audio_path), MIN_DUR, MAX_GAP)
              IN /\ speaker_turns' = turns
                 /\ diar_meta' = [InitialDiarMeta(enable_diarization) EXCEPT
                                    !.turns = Len(turns),
                                    !.speakers = Speakers(turns)]
         ELSE /\ speaker_turns' = <<>>
              /\ diar_meta' = InitialDiarMeta(enable_diarization)
    /\ pc' = "slice"
    /\ UNCHANGED <<is_wav, enable_diarization, track_ms, disk, decode_tried,
                   temp_files,
                   audio_path, duration, slices, max_workers, futs,
                   done_order, ordered_results, merged_segments, full_text,
                   fallback_calls, fallback_out, result, error,
                   sliceVars, unitVars>>

\* asr.py:57, slice_audio is called with window_s=30.0, overlap_s=0.3;
\* AudioSegment.from_wav (utils.py:165) may raise on an undecodable file
CallSliceAudio ==
    /\ pc = "slice"
    /\ \E wav_ok \in BOOLEAN :
         IF wav_ok
         THEN /\ s_pc' = "call"
              /\ s_window_s' = WINDOW_MS * SubMs
              /\ s_overlap_s' = OVERLAP_MS * SubMs
              /\ pc' = "slicing"
              /\ UNCHANGED error
         ELSE /\ Raise("decode")
              /\ UNCHANGED <<s_pc, s_window_s, s_overlap_s>>
    /\ UNCHANGED <<is_wav, enable_diarization, track_ms, disk, decode_tried,
                   temp_files,
                   audio_path, duration, speaker_turns, diar_meta, slices,
                   max_workers, futs, done_order, ordered_results,
                   merged_segments, full_text, fallback_calls, fallback_out,
                   result, total_ms, window_ms, overlap_ms, start_ms, s_out,
                   unitVars>>

\* asr.py:57-61: list(...) has drained the generator; ASR_CONCURRENCY is
\* read; the result slots are allocated
ListSlices ==
    /\ pc = "slicing"
    /\ s_pc = "done"
    /\ slices' = s_out
    /\ \E n \in 0..MaxWorkers : max_workers' = n
    /\ ordered_results' = [i \in 1..Len(s_out) |-> None]
    /\ s_pc' = "idle"
    /\ pc' = "pool"
    /\ UNCHANGED <<is_wav, enable_diarization, track_ms, disk, decode_tried,
                   temp_files,
                   audio_path, duration, speaker_turns, diar_meta, futs,
                   done_order, merged_segments, full_text, fallback_calls,
                   fallback_out, result, error, s_window_s, s_overlap_s,
                   total_ms, window_ms, overlap_ms, start_ms, s_out, unitVars>>

\* asr.py:62, ThreadPoolExecutor(max_workers) raises ValueError for
\* max_workers <= 0
CreatePool ==
    /\ pc = "pool"
    /\ IF max_workers <= 0
       THEN Raise("pool_config")
       ELSE pc' = "submit" /\ UNCHANGED error
    /\ UNCHANGED <<is_wav, enable_diarization, track_ms, disk, decode_tried,
                   temp_files,
                   audio_path, duration, speaker_turns, diar_meta, slices,
                   max_workers, futs, done_order, ordered_results,
                   merged_segments, full_text, fallback_calls, fallback_out,
                   result, sliceVars, unitVars>>

\* the futures in state st
InState(st) == {i \in 1..Len(futs) : futs[i].st = st}
Running == InState("running")
Finished == InState("returned") \cup InState("raised")
Collected == {done_order[k] : k \in 1..Len(done_order)}

\* asr.py:64-65, one iteration of the submission loop: window idx is queued
Submit ==
    /\ pc = "submit"
    /\ Len(futs) < Len(slices)
    /\ futs' = Append(futs, [st |-> "queued", text |-> <<>>, calls |-> 0])
    /\ UNCHANGED <<pc, is_wav, enable_diarization, track_ms, disk, decode_tried,
                   temp_files,
                   audio_path, duration, speaker_turns, diar_meta, slices,
                   max_workers, done_order, ordered_results, merged_segments,
                   full_text, fallback_calls, fallback_out, result, error,
                   sliceVars, unitVars>>

\* asr.py:64-66, the submission loop is over, as_completed starts
SubmitDone ==
    /\ pc = "submit"
    /\ Len(futs) = Len(slices)
    /\ pc' = "collect"
    /\ UNCHANGED <<is_wav, enable_diarization, track_ms, disk, decode_tried,
                   temp_files,
                   audio_path, duration, speaker_turns, diar_meta, slices,
                   max_workers, futs, done_order, ordered_results,
                   merged_segments, full_text, fallback_calls, fallback_out,
                   result, error, sliceVars, unitVars>>

\* MayStart with a thread for every queued task
MayStartUnbounded(i) ==
    /\ i \in InState("queued")
    /\ \A j \in InState("queued") : i <= j

\* the executor may start task i: it heads the FIFO work queue and one of
\* the max_workers threads is free
MayStart(i) ==
    /\ i \in InState("queued")
    /\ \A j \in InState("queued") : i <= j
    /\ Cardinality(Running) < max_workers

\* ThreadPoolExecutor (asr.py:62, 65): a worker thread takes the next task
\* and makes its remote call (asr.py:127)
Start(i) ==
    /\ pc \in {"submit", "collect"}
    /\ MayStart(i)
    /\ futs' = [futs EXCEPT ![i].st = "running", ![i].calls = @ + 1]
    /\ UNCHANGED <<pc, is_wav, enable_diarization, track_ms, disk, decode_tried,
                   temp_files,
                   audio_path, duration, speaker_turns, diar_meta, slices,
                   max_workers, done_order, ordered_results, merged_segments,
                   full_text, fallback_calls, fallback_out, result, error,
                   sliceVars, unitVars>>

\* _transcribe_bytes (asr.py:124-132) ends in its worker thread: the remote
\* call returned a text, or it raised
Finish(i) ==
    /\ pc \in {"submit", "collect"}
    /\ i \in Running
    /\ \/ \E out \in WindowOutputs :
            futs' = [futs EXCEPT ![i].st = "returned",
                                 ![i].text = _transcribe_bytes(out)]
       \/ futs' = [futs EXCEPT ![i].st = "raised"]
    /\ UNCHANGED <<pc, is_wav, enable_diarization, track_ms, disk, decode_tried,
                   temp_files,
                   audio_path, duration, speaker_turns, diar_meta, slices,
                   max_workers, done_order, ordered_results, merged_segments,
                   full_text, fallback_calls, fallback_out, result, error,
                   sliceVars, unitVars>>

\* StoreResult filling the slots in completion order
StoreResultByCompletion(slots, i) ==
    [slots EXCEPT ![Len(done_order) + 1] =
        Some([start |-> slices[i].start, end |-> slices[i].end,
              text |-> IF futs[i].st = "raised" THEN <<>> ELSE futs[i].text])]

\* StoreResult leaving the slot of a failed window empty
StoreResultDropFailed(slots, i) ==
    IF futs[i].st = "raised" THEN slots
    ELSE [slots EXCEPT ![i] = Some([start |-> slices[i].start,
                                    end |-> slices[i].end,
                                    text |-> futs[i].text])]

\* StoreResult writing the first slot that is still empty
StoreResultFirstFree(slots, i) ==
    LET free == {k \in 1..Len(slots) : slots[k] = None}
        k == IF free = {} THEN i ELSE CHOOSE m \in free : \A n \in free : m <= n
    IN [slots EXCEPT ![k] = Some([start |-> slices[i].start,
                                  end |-> slices[i].end,
                                  text |-> IF futs[i].st = "raised" THEN <<>>
                                           ELSE futs[i].text])]

\* asr.py:67-73, the slot and the value the main thread stores for the
\* future of index i
StoreResult(slots, i) ==
    [slots EXCEPT ![i] = Some([start |-> slices[i].start,
                               end |-> slices[i].end,
                               text |-> IF futs[i].st = "raised" THEN <<>>
                                        ELSE futs[i].text])]

\* asr.py:66-73, as_completed yields a finished future; its result or its
\* exception is taken and the slot of its index is written
Collect(i) ==
    /\ pc = "collect"
    /\ i \in Finished \ Collected
    /\ ordered_results' = StoreResult(ordered_results, i)
    /\ done_order' = Append(done_order, i)
    /\ UNCHANGED <<pc, is_wav, enable_diarization, track_ms, disk, decode_tried,
                   temp_files,
                   audio_path, duration, speaker_turns, diar_meta, slices,
                   max_workers, futs, merged_segments, full_text,
                   fallback_calls, fallback_out, result, error,
                   sliceVars, unitVars>>

\* asr.py:62-76, every future was yielded: the with block is left and the
\* slots are merged in index order (asr.py:76-77)
Assemble ==
    /\ pc = "collect"
    /\ Len(done_order) = Len(futs)
    /\ merged_segments' = Filled(ordered_results)
    /\ full_text' = FullText(Filled(ordered_results))
    /\ pc' = "label"
    /\ UNCHANGED <<is_wav, enable_diarization, track_ms, disk, decode_tried,
                   temp_files,
                   audio_path, duration, speaker_turns, diar_meta, slices,
                   max_workers, futs, done_order, ordered_results,
                   fallback_calls, fallback_out, result, error,
                   sliceVars, unitVars>>

\* Labeled leaving the segment as it was
LabeledNoSpeaker(seg, turns) == seg

\* asr.py:83
Labeled(seg, turns) ==
    [start |-> seg.start, end |-> seg.end, text |-> seg.text,
     speaker |-> _assign_speaker(seg, turns)]

\* asr.py:79-84
Label ==
    /\ pc = "label"
    /\ merged_segments' =
         IF speaker_turns # <<>>
         THEN [i \in 1..Len(merged_segments) |->
                 Labeled(merged_segments[i], speaker_turns)]
         ELSE merged_segments
    /\ pc' = "fallback"
    /\ UNCHANGED <<is_wav, enable_diarization, track_ms, disk, decode_tried,
                   temp_files,
                   audio_path, duration, speaker_turns, diar_meta, slices,
                   max_workers, futs, done_order, ordered_results, full_text,
                   fallback_calls, fallback_out, result, error,
                   sliceVars, unitVars>>

\* NeedsFallback true of every text
NeedsFallbackAlways(text) == TRUE

\* asr.py:87, the condition of the single-shot fallback
NeedsFallback(text) == text = <<>>

\* asr.py:86-96
Fallback ==
    /\ pc = "fallback"
    /\ IF NeedsFallback(full_text)
       THEN /\ fallback_calls' = fallback_calls + 1
            /\ \/ \E out \in FallbackOutputs :
                    /\ fallback_out' = Some(out)
                    /\ full_text' = Strip(out)
                    /\ merged_segments' = _create_sentence_segments(Strip(out), duration)
                    /\ pc' = "return"
                    /\ UNCHANGED error
               \/ /\ Raise("fallback")
                  /\ UNCHANGED <<fallback_out, full_text, merged_segments>>
       ELSE /\ pc' = "return"
            /\ UNCHANGED <<fallback_calls, fallback_out, full_text,
                           merged_segments, error>>
    /\ UNCHANGED <<is_wav, enable_diarization, track_ms, disk, decode_tried,
                   temp_files,
                   audio_path, duration, speaker_turns, diar_meta, slices,
                   max_workers, futs, done_order, ordered_results, result,
                   sliceVars, unitVars>>

\* asr.py:98-102
ReturnValue(text, segs, dur, meta) ==
    [text |-> text,
     segments |-> IF segs # <<>> THEN segs
                  ELSE _create_sentence_segments(text, dur),
     meta |-> [diarization |-> meta]]

\* asr.py:98-102
Return ==
    /\ pc = "return"
    /\ result' = Some(ReturnValue(full_text, merged_segments, duration, diar_meta))
    /\ pc' = "finally"
    /\ UNCHANGED <<is_wav, enable_diarization, track_ms, disk, decode_tried,
                   temp_files,
                   audio_path, duration, speaker_turns, diar_meta, slices,
                   max_workers, futs, done_order, ordered_results,
                   merged_segments, full_text, fallback_calls, fallback_out,
                   error, sliceVars, unitVars>>

\* asr.py:104-111: every tracked temporary file that exists is removed;
\* then the value is returned or the exception leaves transcribe
Finally ==
    /\ pc = "finally"
    /\ disk' = disk \ {temp_files[k] : k \in 1..Len(temp_files)}
    /\ pc' = "done"
    /\ UNCHANGED <<is_wav, enable_diarization, track_ms, decode_tried, temp_files,
                   audio_path, duration, speaker_turns, diar_meta, slices,
                   max_workers, futs, done_order, ordered_results,
                   merged_segments, full_text, fallback_calls, fallback_out,
                   result, error, sliceVars, unitVars>>

\* ----------------------- direct calls of the speaker-turn functions
SpeakerLabels == {"SPEAKER_00", "SPEAKER_01"}
\* a turn as diarize builds it (diarization.py:84-88)
Turns == {t \in [start : 0..MaxTime, end : 0..MaxTime, speaker : SpeakerLabels] :
            t.start < t.end}
\* diarize returns its turns sorted by start (diarization.py:90)
SortedByStart(ts) == \A i \in 1..(Len(ts) - 1) : ts[i].start <= ts[i + 1].start
TurnLists == UNION {{ts \in [1..n -> Turns] : SortedByStart(ts)} : n \in 0..MaxTurns}
\* a transcribed segment's time range
Segments == {g \in [start : 0..MaxTime, end : 0..MaxTime] : g.start <= g.end}

\* asr.py:83, self._assign_speaker(seg, speaker_turns)
CallAssignSpeaker ==
    /\ u_pc = "ready"
    /\ u_out' = _assign_speaker(u_seg, u_turns)
    /\ u_pc' = "assigned"
    /\ UNCHANGED <<u_seg, u_turns, pipeVars, sliceVars>>

\* asr.py:46, merge_short_adjacent(speaker_turns, min_dur=0.6, max_gap=0.4)
CallMerge ==
    /\ u_pc = "ready"
    /\ u_out' = merge_short_adjacent(u_turns, MIN_DUR, MAX_GAP)
    /\ u_pc' = "merged"
    /\ UNCHANGED <<u_seg, u_turns, pipeVars, sliceVars>>

\* ------------------------------------------------------ specifications
\* the state of a run of transcribe at position p, before anything ran
PipeAt(p) ==
    /\ pc = p
    /\ disk = {InputPath}
    /\ decode_tried = <<>>
    /\ temp_files = <<>>
    /\ audio_path = ""
    /\ duration = 0
    /\ speaker_turns = <<>>
    /\ diar_meta = [requested |-> FALSE, turns |-> 0, speakers |-> {}]
    /\ slices = <<>>
    /\ max_workers = 0
    /\ futs = <<>>
    /\ done_order = <<>>
    /\ ordered_results = <<>>
    /\ merged_segments = <<>>
    /\ full_text = <<>>
    /\ fallback_calls = 0
    /\ fallback_out = None
    /\ result = None
    /\ error = ""

SliceAt(p) ==
    /\ s_pc = p
    /\ total_ms = 0
    /\ window_ms = 0
    /\ overlap_ms = 0
    /\ start_ms = 0
    /\ s_out = <<>>

UnitIdle ==
    /\ u_pc = "idle"
    /\ u_seg = [start |-> 0, end |-> 0]
    /\ u_turns = <<>>
    /\ u_out = <<>>

\* transcribe(file_path, enable_diarization) is called (asr.py:28-33)
Init ==
    /\ PipeAt("prepare")
    /\ is_wav \in BOOLEAN
    /\ enable_diarization \in BOOLEAN
    /\ track_ms \in TrackLengths
    /\ SliceAt("idle")
    /\ s_window_s = 0
    /\ s_overlap_s = 0
    /\ UnitIdle

Next ==
    \/ PrepareAudio
    \/ ProbeDuration
    \/ Diarize
    \/ CallSliceAudio
    \/ SliceEnter
    \/ SliceYield
    \/ SliceExhaust
    \/ ListSlices
    \/ CreatePool
    \/ Submit
    \/ SubmitDone
    \/ \E i \in 1..Len(futs) : Start(i)
    \/ \E i \in 1..Len(futs) : Finish(i)
    \/ \E i \in 1..Len(futs) : Collect(i)
    \/ Assemble
    \/ Label
    \/ Fallback
    \/ Return
    \/ Finally

Spec == Init /\ [][Next]_vars

\* slice_audio(wav_path, window_s, overlap_s) is called on its own, with
\* window_s and overlap_s non-negative multiples of 1/SubMs ms
SliceInit ==
    /\ PipeAt("off")
    /\ is_wav = TRUE
    /\ enable_diarization = FALSE
    /\ track_ms \in 0..MaxTotalMs
    /\ SliceAt("call")
    /\ s_window_s \in 0..(MaxParamMs * SubMs)
    /\ s_overlap_s \in 0..(MaxParamMs * SubMs)
    /\ UnitIdle

SliceSpec == SliceInit /\ [][SliceNext]_vars

\* _assign_speaker and merge_short_adjacent are called on their own
UnitInit ==
    /\ PipeAt("off")
    /\ is_wav = TRUE
    /\ enable_diarization = FALSE
    /\ track_ms = 0
    /\ SliceAt("idle")
    /\ s_window_s = 0
    /\ s_overlap_s = 0
    /\ u_pc = "ready"
    /\ u_seg \in Segments
    /\ u_turns \in TurnLists
    /\ u_out = <<>>

UnitNext == CallAssignSpeaker \/ CallMerge

UnitSpec == UnitInit /\ [][UnitNext]_vars

\* ------------- a run in a process where the import of asr.py:14 succeeded
\* diarization.py:94-103: True exactly if _get_pipeline() does not raise
\* (package installed, token found, model loaded)
is_available(env_ok) == env_ok

\* the times a turn may start or end at, in ticks: whole windows within
\* the longest track
TurnTimes == {SecondsOfMs(k * WINDOW_MS) : k \in 0..(MaxTrackSteps \div 2)}
\* a turn as diarize builds it (diarization.py:84-88)
DiarTurns == {t \in [start : TurnTimes, end : TurnTimes, speaker : SpeakerLabels] :
                t.start < t.end}
\* diarization.py:74-91: what diarize returns when the pipeline ran, a list
\* of turns sorted by start
DiarizeOutputs ==
    UNION {{ts \in [1..n -> DiarTurns] : SortedByStart(ts)} : n \in 0..MaxDiarTurns}

\* the walk of merge_short_adjacent over turns from index i on, cur being
\* the accumulator and out the turns flushed so far
RECURSIVE MergeWalk(_, _, _, _, _, _)
MergeWalk(turns, i, cur, out, min_dur, max_gap) ==
    IF i > Len(turns)
    THEN Append(out,
                IF cur.end - cur.start < min_dur /\ out # <<>>
                THEN [cur EXCEPT !.start =
                        Min(cur.start, Max(out[Len(out)].end, cur.end - min_dur))]
                ELSE cur)
    ELSE LET nxt == turns[i]
             gap == nxt.start - cur.end
         IN IF nxt.speaker = cur.speaker /\ 0 <= gap /\ gap <= max_gap
            THEN MergeWalk(turns, i + 1, [cur EXCEPT !.end = nxt.end], out,
                           min_dur, max_gap)
            ELSE MergeWalk(turns, i + 1, nxt,
                           Append(out,
                                  IF cur.end - cur.start < min_dur
                                  THEN [cur EXCEPT !.end =
                                          Max(cur.end, Min(cur.start + min_dur, nxt.start))]
                                  ELSE cur),
                           min_dur, max_gap)

\* merge_short_adjacent as a diarization module providing it would define it
merge_short_adjacent_imported(turns, min_dur, max_gap) ==
    IF turns = <<>> THEN <<>>
    ELSE MergeWalk(turns, 2, turns[1], <<>>, min_dur, max_gap)

\* asr.py:41-54 with the imported names: diarize returns its turns or
\* raises, and the except clause of asr.py:49-51 empties speaker_turns
DiarizeImported ==
    /\ pc = "diarize"
    /\ \E env_ok \in BOOLEAN :
         IF enable_diarization /\ is_available(env_ok)
         THEN \/ \E raw \in DiarizeOutputs :
                   LET turns == merge_short_adjacent_imported(
                                    raw, MIN_DUR * SecondsOfMs(200),
                                    MAX_GAP * SecondsOfMs(200))
                   IN /\ speaker_turns' = turns
                      /\ diar_meta' = [InitialDiarMeta(enable_diarization) EXCEPT
                                         !.turns = Len(turns),
                                         !.speakers = Speakers(turns)]
              \/ /\ speaker_turns' = <<>>
                 /\ diar_meta' = InitialDiarMeta(enable_diarization)
         ELSE /\ speaker_turns' = <<>>
              /\ diar_meta' = InitialDiarMeta(enable_diarization)
    /\ pc' = "slice"
    /\ UNCHANGED <<is_wav, enable_diarization, track_ms, disk, decode_tried,
                   temp_files,
                   audio_path, duration, slices, max_workers, futs,
                   done_order, ordered_results, merged_segments, full_text,
                   fallback_calls, fallback_out, result, error,
                   sliceVars, unitVars>>

\* transcribe(file_path, enable_diarization=True) is called on a .wav file
DiarInit ==
    /\ PipeAt("prepare")
    /\ is_wav = TRUE
    /\ enable_diarization = TRUE
    /\ track_ms \in TrackLengths
    /\ SliceAt("idle")
    /\ s_window_s = 0
    /\ s_overlap_s = 0
    /\ UnitIdle

DiarNext ==
    \/ PrepareAudio
    \/ ProbeDuration
    \/ DiarizeImported
    \/ CallSliceAudio
    \/ SliceEnter
    \/ SliceYield
    \/ SliceExhaust
    \/ ListSlices
    \/ CreatePool
    \/ Submit
    \/ SubmitDone
    \/ \E i \in 1..Len(futs) : Start(i)
    \/ \E i \in 1..Len(futs) : Finish(i)
    \/ \E i \in 1..Len(futs) : Collect(i)
    \/ Assemble
    \/ Label
    \/ Fallback
    \/ Return
    \/ Finally

DiarSpec == DiarInit /\ [][DiarNext]_vars

\* =============================================================== claims
\* the positions of a run after the slots were merged (asr.py:76-77)
Assembled == pc \in {"label", "fallback"}
\* the text the pool phase obtained for window i
WindowText(i) == IF futs[i].st = "raised" THEN <<>> ELSE futs[i].text
\* the run has returned a value
Returned == pc = "done" /\ result # None

\* C1: on the windowed path the assembled segment list is in window index
\* order under every completion order and every concurrency limit:
\* segment i carries the start and end of window i and the text obtained
\* for window i, and the starts are non-decreasing; the same holds of the
\* segments of the result returned without fallback.
C1_SubmissionOrder ==
    LET InOrder(segs) ==
          /\ Len(segs) = Len(slices)
          /\ \A i \in 1..Len(segs) :
               /\ segs[i].start = slices[i].start
               /\ segs[i].end = slices[i].end
               /\ segs[i].text = WindowText(i)
          /\ \A i \in 1..(Len(segs) - 1) : segs[i].start <= segs[i + 1].start
    IN /\ Assembled => InOrder(merged_segments)
       /\ (Returned /\ fallback_calls = 0) => InOrder(result[1].segments)

\* C1 witness: three windows were collected out of submission order and
\* the slots were merged
C1_Witness ==
    /\ pc = "label"
    /\ Len(slices) = 3
    /\ done_order[1] = 3
    /\ done_order[2] = 1
    /\ WindowText(1) # WindowText(3)

\* exactly one window's remote call raised and every other call returned
OneWindowFailed ==
    /\ Len(futs) = Len(slices)
    /\ Cardinality(InState("raised")) = 1
    /\ Cardinality(InState("returned")) = Len(futs) - 1

\* the result holds one segment per window, each with its window's start
\* and end, the failed windows with empty text
SegmentPerWindow ==
    /\ error = ""
    /\ result # None
    /\ Len(result[1].segments) = Len(slices)
    /\ \A i \in 1..Len(slices) :
         /\ result[1].segments[i].start = slices[i].start
         /\ result[1].segments[i].end = slices[i].end
         /\ (i \in InState("raised") => result[1].segments[i].text = <<>>)
         /\ (i \in InState("returned") => result[1].segments[i].text = futs[i].text)

\* C2 as stated: if exactly one window's remote call raises and every
\* other call returns, transcribe does not raise and the result holds a
\* segment for every window, the failing one with empty text.
C2_Original == (pc = "done" /\ OneWindowFailed) => SegmentPerWindow

\* C2 amended: the same, provided some other window returned a non-empty
\* text (otherwise the windowed text is empty and the whole-file fallback
\* replaces the window segments, and may raise).
C2_PartialFailure ==
    (/\ pc = "done"
     /\ OneWindowFailed
     /\ \E i \in InState("returned") : futs[i].text # <<>>)
    => (SegmentPerWindow /\ fallback_calls = 0)

\* C2 witness: a run of three windows has ended, the second window's call
\* raised and the others returned text
C2_Witness ==
    /\ pc = "done"
    /\ Len(slices) = 3
    /\ InState("raised") = {2}
    /\ futs[1].text # <<>>
    /\ futs[3].text # <<>>

C4_NoEndlessLoop ==
    (overlap_ms >= window_ms) =>
        ~(/\ s_pc = "loop"
          /\ s_out # <<>>
          /\ SecondsOfMs(start_ms) <= s_out[Len(s_out)].start)

\* every window of the pool phase ended with empty text
WindowedEmpty ==
    /\ Len(futs) = Len(slices)
    /\ \A i \in 1..Len(futs) : futs[i].st \in {"returned", "raised"} /\ WindowText(i) = <<>>
\* the run is past the fallback decision of asr.py:87
PastFallback ==
    \/ pc = "return"
    \/ pc \in {"finally", "done"} /\ (result # None \/ error = "fallback")

\* C5: the whole-file call is made at most once per run; it is made only
\* when every window ended with empty text, and once the run is past
\* asr.py:87 it has been made whenever every window ended with empty
\* text; when it was made and the run returns, the result's text is the
\* (stripped) text of that call and the result's segments are the
\* sentence segments made from that text.
C5_Fallback ==
    /\ fallback_calls <= 1
    /\ (fallback_calls = 1 => WindowedEmpty)
    /\ (PastFallback /\ WindowedEmpty => fallback_calls = 1)
    /\ (result # None /\ fallback_calls = 1 =>
          /\ fallback_out # None
          /\ result[1].text = Strip(fallback_out[1])
          /\ result[1].segments =
               _create_sentence_segments(Strip(fallback_out[1]), duration))

\* C5 witness: two windows ended empty, the fallback call returned two or
\* more sentences and the run returned them
C5_Witness ==
    /\ Returned
    /\ Len(slices) >= 2
    /\ fallback_calls = 1
    /\ Len(result[1].segments) >= 2

\* C6: a run ends either with a result whose text, segments and meta are
\* set and no error, or with one error and no result; a failed decode
\* (no audio path, or the wav could not be loaded) and a failed fallback
\* call end it with an error; the error is never that of a window, of
\* diarization or of the duration probe.
C6_Outcome ==
    pc = "done" =>
        /\ \/ /\ result # None
              /\ error = ""
              /\ DOMAIN result[1] = {"text", "segments", "meta"}
              /\ result[1].segments # <<>>
           \/ /\ result = None
              /\ error # ""
        /\ (audio_path = "" => error = "decode")
        /\ (fallback_calls = 1 /\ fallback_out = None => error = "fallback")
        /\ error \in {"", "decode", "fallback", "pool_config"}
        /\ (error = "fallback" => fallback_calls = 1 /\ fallback_out = None)

\* C6 witness: a run whose duration probe failed and one of whose windows
\* raised has returned a result
C6_Witness ==
    /\ Returned
    /\ track_ms # FALLBACK_DURATION_MS
    /\ duration = SecondsOfMs(FALLBACK_DURATION_MS)
    /\ InState("raised") # {}
    /\ fallback_calls = 0

\* the non-empty texts of segs, in order
RECURSIVE NonEmptyTexts(_)
NonEmptyTexts(segs) ==
    IF segs = <<>> THEN <<>>
    ELSE (IF Head(segs).text # <<>> THEN <<Head(segs).text>> ELSE <<>>)
         \o NonEmptyTexts(Tail(segs))

\* C7 as stated: on the windowed path full_text is the non-empty segment
\* texts in window order joined by exactly one space; an empty-text
\* window adds nothing, not even a separator.
C7_JoinNonEmpty ==
    Assembled => full_text = Join(NonEmptyTexts(merged_segments))

\* the overlap of u_seg with turn i of u_turns
UOverlap(i) == Max(0, Min(u_seg.end, u_turns[i].end) - Max(u_seg.start, u_turns[i].start))

\* C8: _assign_speaker returns the speaker of the turn with the largest
\* overlap, the first such turn in list order when several tie, and
\* SPEAKER_00 when no turn has positive overlap.
C8_MaxOverlap ==
    u_pc = "assigned" =>
        IF \A i \in 1..Len(u_turns) : UOverlap(i) = 0
        THEN u_out = "SPEAKER_00"
        ELSE \E i \in 1..Len(u_turns) :
               /\ \A j \in 1..Len(u_turns) : UOverlap(j) <= UOverlap(i)
               /\ \A j \in 1..(i - 1) : UOverlap(j) < UOverlap(i)
               /\ u_out = u_turns[i].speaker

\* C8 witness: two turns of different speakers tie with positive overlap
\* and the first one's speaker was returned
C8_Witness ==
    /\ u_pc = "assigned"
    /\ Len(u_turns) = 2
    /\ u_turns[1].speaker # u_turns[2].speaker
    /\ UOverlap(1) = UOverlap(2)
    /\ UOverlap(1) > 0
    /\ u_out = u_turns[1].speaker

\* the segments of the run so far carry no speaker label
NoSpeakerLabel(segs) == \A i \in 1..Len(segs) : "speaker" \notin DOMAIN segs[i]

\* C9: when diarization is requested and is unavailable the run goes on:
\* past step 2 the meta says requested, 0 turns and no speakers, there
\* are no speaker turns and no segment carries a speaker label, and no
\* run ends with an error of the diarization step.
C9_DiarizationSkipped ==
    (enable_diarization /\ pc \notin {"prepare", "duration", "diarize"}
     /\ audio_path # "") =>
        /\ diar_meta = [requested |-> TRUE, turns |-> 0, speakers |-> {}]
        /\ speaker_turns = <<>>
        /\ NoSpeakerLabel(merged_segments)
        /\ error \in {"", "decode", "fallback", "pool_config"}
        /\ (result # None =>
              /\ result[1].meta.diarization = [requested |-> TRUE, turns |-> 0,
                                               speakers |-> {}]
              /\ NoSpeakerLabel(result[1].segments))

\* C9 witness: a run with diarization requested went through the windowed
\* transcription of two or more windows and returned
C9_Witness ==
    /\ Returned
    /\ enable_diarization
    /\ fallback_calls = 0
    /\ Len(result[1].segments) >= 2

\* C10 as stated: merge_short_adjacent brings two consecutive turns of one
\* speaker whose gap is within [0, max_gap] out as one turn from the
\* first's start to the second's end, and a single turn shorter than
\* min_dur out with a duration of at least min_dur.
C10_Merges ==
    u_pc = "merged" =>
        /\ (/\ Len(u_turns) = 2
            /\ u_turns[1].speaker = u_turns[2].speaker
            /\ u_turns[2].start - u_turns[1].end \in 0..MAX_GAP)
           => u_out = <<[start |-> u_turns[1].start, end |-> u_turns[2].end,
                         speaker |-> u_turns[1].speaker]>>
        /\ (Len(u_turns) = 1 /\ u_turns[1].end - u_turns[1].start < MIN_DUR)
           => (Len(u_out) = 1 /\ u_out[1].end - u_out[1].start >= MIN_DUR)

\* the whole-file call returned and its sentence segments were made
FallbackSegmented == fallback_out # None /\ pc \in {"return", "finally", "done"}

\* C11: for a fallback text of n >= 1 sentences and duration D,
\* _create_sentence_segments gives n segments in sentence order, segment
\* i (from 0) spanning [i*D/n, (i+1)*D/n], each starting where the one
\* before ends, the first at 0 and the last ending at D; for a text of no
\* sentence it gives the one segment [0, D] with the text.  (Seconds are
\* exact here; floating-point rounding of i * (D / n) is not modelled.)
C11_SentenceSegments ==
    FallbackSegmented =>
        LET text == Strip(fallback_out[1])
            sentences == _split_sentences(text)
            n == Len(sentences)
            segs == merged_segments
        IN IF n = 0
           THEN segs = <<[start |-> 0, end |-> duration, text |-> text]>>
           ELSE /\ Len(segs) = n
                /\ \A i \in 1..n :
                     /\ segs[i].start * n = (i - 1) * duration
                     /\ segs[i].end * n = i * duration
                     /\ segs[i].text = Strip(sentences[i])
                     /\ (i > 1 => segs[i].start = segs[i - 1].end)
                /\ segs[1].start = 0
                /\ segs[n].end = duration

\* C11 witness: the fallback text "a. a. a." was cut into three segments
\* over a duration that is not zero
C11_Witness ==
    /\ FallbackSegmented
    /\ fallback_out[1] = <<"a", ".", " ", "a", ".", " ", "a", ".">>
    /\ Len(merged_segments) = 3
    /\ duration > 0
    /\ merged_segments[2].start * 3 = duration

\* C12: when transcribe has returned or raised, no temporary file made
\* during audio normalization is left on disk, and the input file is
\* still there
C12_TempFilesRemoved ==
    pc = "done" => (TmpWav \notin disk /\ InputPath \in disk)

\* C13: a decode error of the normalization of a non-WAV input reaches the
\* caller only after a primary and a secondary decode step have both
\* been run
C13_SecondaryDecode ==
    (pc = "done" /\ error = "decode" /\ ~is_wav /\ audio_path = "")
        => Len(decode_tried) >= 2

\* C14: every window slice_audio yields has start < end and the starts
\* never decrease along the sequence; and with overlap_ms < window_ms every
\* window but the last is window_ms long and every window after the first
\* starts overlap_ms before the end of the one before
C14_WindowShape ==
    s_pc \in {"loop", "done"} =>
        /\ \A i \in 1..Len(s_out) : s_out[i].start < s_out[i].end
        /\ \A i \in 2..Len(s_out) : s_out[i - 1].start <= s_out[i].start
        /\ (overlap_ms < window_ms =>
              /\ \A i \in 1..(Len(s_out) - 1) :
                   s_out[i].end - s_out[i].start = SecondsOfMs(window_ms)
              /\ \A i \in 2..Len(s_out) :
                   s_out[i].start = s_out[i - 1].end - SecondsOfMs(overlap_ms))

\* C15: called with 0 <= overlap_s < window_s, slice_audio ends after
\* finitely many windows.  The loop is deterministic and its parameters
\* are fixed, so it ends exactly if it never goes on with a cursor that
\* did not move past the start of the window it has just yielded.
C15_Terminates ==
    (s_overlap_s < s_window_s /\ s_pc = "loop" /\ s_out # <<>>)
        => SecondsOfMs(start_ms) > s_out[Len(s_out)].start

\* C16: at every moment at most max_workers remote calls of the windowed
\* phase are in flight, no window is ever called twice, and when the
\* windowed phase is over every window of slice_audio has been submitted
\* and called exactly once
C16_BoundedCalls ==
    /\ Cardinality(Running) <= max_workers
    /\ \A i \in 1..Len(futs) : futs[i].calls <= 1
    /\ \A i \in 1..Len(futs) : (futs[i].st # "queued") <=> (futs[i].calls = 1)
    /\ Len(futs) <= Len(slices)
    /\ (Assembled =>
          /\ Len(futs) = Len(slices)
          /\ \A i \in 1..Len(futs) : futs[i].calls = 1)

\* C16 witness: every worker thread holds a call while one window has
\* finished and another still waits in the queue
C16_Witness ==
    /\ pc \in {"submit", "collect"}
    /\ max_workers >= 1
    /\ Cardinality(Running) = max_workers
    /\ InState("queued") # {}
    /\ Finished # {}

\* C17: a slot is filled exactly when the future of its own index has been
\* collected, and then with the window times and the outcome of that
\* future; no future is collected twice (so no slot is written twice);
\* and when the assembly of asr.py:76 starts there is a slot for every
\* window and none is empty
C17_SlotsOwnIndex ==
    /\ \A i \in 1..Len(ordered_results) :
         /\ (ordered_results[i] # None) <=> (i \in Collected)
         /\ (i \in Collected =>
               ordered_results[i] = Some([start |-> slices[i].start,
                                          end |-> slices[i].end,
                                          text |-> WindowText(i)]))
    /\ \A j, k \in 1..Len(done_order) : j # k => done_order[j] # done_order[k]
    /\ Collected \subseteq 1..Len(ordered_results)
    /\ (Assembled =>
          /\ Len(ordered_results) = Len(slices)
          /\ \A i \in 1..Len(ordered_results) : ordered_results[i] # None)

\* C17 witness: assembly starts after three windows were collected out of
\* submission order, one of them having raised
C17_Witness ==
    /\ Assembled
    /\ Len(slices) = 3
    /\ done_order = <<3, 1, 2>>
    /\ futs[1].st = "raised"
    /\ futs[2].st = "returned"

\* C19: whenever transcribe returns, the result has at least one segment
\* and every segment has 0 <= start <= end, also for a track that yields
\* no window and for an empty fallback text
C19_SegmentsWellFormed ==
    Returned =>
        LET segs == result[1].segments
        IN /\ segs # <<>>
           /\ \A i \in 1..Len(segs) :
                /\ 0 <= segs[i].start
                /\ segs[i].start <= segs[i].end

\* C19 witness: a track of length 0 gave no window, the whole-file call
\* returned the empty text, and transcribe returned
C19_Witness ==
    /\ Returned
    /\ track_ms = 0
    /\ slices = <<>>
    /\ fallback_out = Some(<<>>)
    /\ Len(result[1].segments) = 1

\* the segment carries a speaker label, and it is a speaker of the turns
HasSpeaker(seg) ==
    /\ "speaker" \in DOMAIN seg
    /\ seg.speaker \in Speakers(speaker_turns) \cup {"SPEAKER_00"}

====
